---- MODULE Spec2Model ----
(***************************************************************************)
(* The session state machine of ui.py, the Streamlit front-end of the      *)
(* Tunisian legal assistant.  Streamlit re-executes the whole script once  *)
(* per widget event; st.session_state survives between executions.  Each   *)
(* action below is one execution of the script (plus the execution that    *)
(* st.rerun() starts at once), triggered by one widget.                    *)
(*                                                                         *)
(* Python values: None is <<>> and a present optional value v is <<v>>;    *)
(* a text is the sequence of its characters; a dict is a record.           *)
(* The two GET /stats calls of every execution (lines 222-236, 349-356)    *)
(* read nothing from and write nothing to the session state and are left   *)
(* out.                                                                    *)
(***************************************************************************)
EXTENDS Integers, Sequences, FiniteSets, TLC

VARIABLES
    conversation,       \* st.session_state.conversation
    current_query_id,   \* st.session_state.current_query_id
    feedback_given,     \* st.session_state.feedback_given
    model_settings,     \* st.session_state.model_settings
    last_response,      \* st.session_state.last_response
    feedback_section,   \* the feedback widgets are on the page
    trigger,            \* the widget that started the latest execution
    input,              \* the text that widget delivered, if it delivers one
    http,               \* the POST requests of the latest execution: the path, the query
                        \* id named, the outcome, and the JSON body read from a response
    alerts              \* st.warning / st.error / st.success of the latest execution

session == <<conversation, current_query_id, feedback_given, model_settings, last_response>>
vars == <<conversation, current_query_id, feedback_given, model_settings, last_response,
          feedback_section, trigger, input, http, alerts>>

----------------------------------------------------------------------------
(* Python values *)

None == <<>>
Some(v) == <<v>>

\* {} and d[key] = value
EmptyDict == [k \in {} |-> None]
Put(d, key, value) == [k \in DOMAIN d \cup {key} |-> IF k = key THEN value ELSE d[k]]

----------------------------------------------------------------------------
(* Bounds and input samples *)

\* a prompt is accepted by the model only while the conversation is shorter than this
MaxTurns == 3

Whitespace == {" ", "\t", "\n"}

\* what st.chat_input delivers: the text the user sent, never the empty text
Prompts ==
    { <<" ", " ", " ", " ">>,
      <<"a", "b">>,
      <<" ", "a", "b", "\n">>,
      <<"a", "b", "c">>,
      <<" ", "a", " ", "b">> }

\* what the user types into the correction text_area
Corrections == { <<>>, <<"f", "i", "x">> }

\* bodies of a 200 response of POST /query: query_id, answer, retrieved_documents
\* and an optional reflection
QueryIds == {"", "q1", "q2"}
Answers == { <<"a", "n", "s">> }
RetrievedDocuments == { << [text |-> "art. 5", score |-> 92] >> }
QueryReflections == { None, Some("r0") }

\* body of a 200 response of POST /reflect
Reflections == { "r1" }

\* HTTP status codes the API answers with
StatusCodes == {200, 201, 500}

\* the outcome of requests.post: an exception, or a response with a status code
Outcomes ==
    { [raised |-> TRUE, status_code |-> 0] } \cup
    { [raised |-> FALSE, status_code |-> s] : s \in StatusCodes }

----------------------------------------------------------------------------
(* Configuration *)

POSITIVE == "positive"
NEGATIVE == "negative"
CORRECTION == "correction"
FeedbackType == {POSITIVE, NEGATIVE, CORRECTION}

\* values the user gives the sidebar widgets: a sample of each widget's range
\* (temperature in tenths)
SettingValues ==
    [ temperature |-> {7},
      max_tokens |-> {150},
      top_k |-> {3},
      enable_reflection |-> {TRUE, FALSE} ]

initialize_session_state ==
    /\ conversation = <<>>
    /\ current_query_id = None
    /\ feedback_given = EmptyDict
    /\ model_settings = [temperature |-> 7, max_tokens |-> 150, top_k |-> 3,
                         enable_reflection |-> TRUE]
    /\ last_response = None

----------------------------------------------------------------------------
(* Helper functions *)

RECURSIVE lstrip(_)
lstrip(s) == IF s # <<>> /\ Head(s) \in Whitespace THEN lstrip(Tail(s)) ELSE s

RECURSIVE rstrip(_)
rstrip(s) ==
    IF s # <<>> /\ s[Len(s)] \in Whitespace THEN rstrip(SubSeq(s, 1, Len(s) - 1)) ELSE s

\* str.strip()
strip(s) == rstrip(lstrip(s))

\* variant: the length check without strip()
MeaningfulQuestion_NoStrip(prompt) == Len(prompt) >= 3

\* line 258, negated: the prompt is long enough to be sent
MeaningfulQuestion(prompt) == Len(strip(prompt)) >= 3

\* send_query: the request it posts (its payload, lines 43-51, names no query id)
QueryRequest(outcome, data) ==
    [ path |-> "/query", query_id |-> None, outcome |-> outcome,
      body |-> IF ~outcome.raised /\ outcome.status_code = 200 THEN Some(data) ELSE None ]

\* send_query: line 55
QuerySucceeded(outcome) == ~outcome.raised /\ outcome.status_code = 200

\* send_query: its return value, the body of the response or None
send_query(outcome, data) == IF QuerySucceeded(outcome) THEN Some(data) ELSE None

\* variant: a failed query forgets the previous response but keeps its id
SessionAfterQuery_DropsResponse(response) ==
    IF response # None
    THEN [ current_query_id |-> Some(response[1].query_id), last_response |-> response ]
    ELSE [ current_query_id |-> current_query_id, last_response |-> None ]

\* send_query: lines 57-58, current_query_id and last_response when it returns
SessionAfterQuery(response) ==
    IF response # None
    THEN [ current_query_id |-> Some(response[1].query_id), last_response |-> response ]
    ELSE [ current_query_id |-> current_query_id, last_response |-> last_response ]

\* variant: a failed query rolls the user turn back
ConversationAfterQuery_Rollback(conv, prompt, response) ==
    IF response # None
    THEN conv \o << [role |-> "user", content |-> prompt],
                    [ role |-> "assistant",
                      content |-> response[1].answer,
                      sources |-> response[1].retrieved_documents,
                      reflection |-> response[1].reflection ] >>
    ELSE conv

\* lines 263 and 293-298: the conversation after the chat_input handler
ConversationAfterQuery(conv, prompt, response) ==
    LET asked == Append(conv, [role |-> "user", content |-> prompt])
    IN  IF response # None
        THEN Append(asked, [ role |-> "assistant",
                             content |-> response[1].answer,
                             sources |-> response[1].retrieved_documents,
                             reflection |-> response[1].reflection ])
        ELSE asked

\* lines 69 and 95: there is a response, and its query id is not empty
ActiveQuery(resp) == resp # None /\ resp[1].query_id # ""

\* variant: any 2xx status counts as success
FeedbackSucceeded_Any2xx(outcome) == ~outcome.raised /\ outcome.status_code \in {200, 201}

\* submit_feedback: line 82
FeedbackSucceeded(outcome) == ~outcome.raised /\ outcome.status_code = 201

\* get_reflection: line 104
ReflectionSucceeded(outcome) == ~outcome.raised /\ outcome.status_code = 200

\* submit_feedback: the requests it posts (of the payload, lines 73-78, the query id)
FeedbackRequests(outcome) ==
    IF ActiveQuery(last_response)
    THEN << [ path |-> "/feedback",
              query_id |-> Some(last_response[1].query_id),
              outcome |-> outcome, body |-> None ] >>
    ELSE <<>>

\* submit_feedback: its return value
submit_feedback(outcome) == ActiveQuery(last_response) /\ FeedbackSucceeded(outcome)

\* submit_feedback: line 83
FeedbackGivenAfter(given, feedback_type, outcome) ==
    IF submit_feedback(outcome)
    THEN Put(given, last_response[1].query_id, feedback_type)
    ELSE given

\* submit_feedback: what it shows
FeedbackAlerts(outcome) ==
    IF ~ActiveQuery(last_response) THEN <<"warning: No active query to provide feedback on">>
    ELSE IF outcome.raised THEN <<"error: Connection Error">>
    ELSE IF outcome.status_code = 201 THEN <<"success: Feedback submitted successfully!">>
    ELSE <<"error: Feedback Error">>

\* get_reflection: the requests it posts
ReflectionRequests(outcome, data) ==
    IF ActiveQuery(last_response)
    THEN << [ path |-> "/reflect",
              query_id |-> Some(last_response[1].query_id),
              outcome |-> outcome, body |-> IF ~outcome.raised /\ outcome.status_code = 200
                       THEN Some(data) ELSE None ] >>
    ELSE <<>>

\* get_reflection: its return value, the body of the response or None
get_reflection(outcome, body) ==
    IF ActiveQuery(last_response) /\ ReflectionSucceeded(outcome) THEN Some(body) ELSE None

\* get_reflection: what it shows
ReflectionAlerts(outcome) ==
    IF ~ActiveQuery(last_response) THEN <<"warning: No active query to reflect on">>
    ELSE IF outcome.raised THEN <<"error: Connection Error">>
    ELSE IF outcome.status_code = 200 THEN <<>>
    ELSE <<"error: Reflection Error">>

\* variant: the reflection is appended as a turn of its own
SetLastReflection_Appends(conv, reflection) ==
    Append(conv, [ role |-> "assistant", content |-> <<>>, sources |-> <<>>,
                   reflection |-> Some(reflection) ])

\* line 323: conversation[-1]["reflection"] = reflection["reflection"]
SetLastReflection(conv, reflection) ==
    [conv EXCEPT ![Len(conv)] = Put(@, "reflection", Some(reflection))]

\* variant: the correction also discards the reflection of the corrected answer
SetLastContent_ResetsReflection(conv, correction) ==
    [conv EXCEPT ![Len(conv)] = Put(Put(@, "content", correction), "reflection", None)]

\* line 341: conversation[-1]["content"] = correction
SetLastContent(conv, correction) ==
    [conv EXCEPT ![Len(conv)] = Put(@, "content", correction)]

\* variant: the form posts whatever the text_area holds
CorrectionProvided_Always(correction) == TRUE

\* line 338: the correction text_area is not empty
CorrectionProvided(correction) == correction # <<>>

\* variant: line 304 is missing
FeedbackSectionGuard_NoGivenCheck(resp, conv, given) ==
    /\ resp # None
    /\ conv # <<>>
    /\ conv[Len(conv)].role = "assistant"

\* variant: line 303 is missing
FeedbackSectionGuard_NoRoleCheck(resp, conv, given) ==
    /\ resp # None
    /\ conv # <<>>
    /\ resp[1].query_id \notin DOMAIN given

\* lines 301-304: the condition under which the feedback section is drawn
FeedbackSectionGuard(resp, conv, given) ==
    /\ resp # None
    /\ conv # <<>>
    /\ conv[Len(conv)].role = "assistant"
    /\ resp[1].query_id \notin DOMAIN given

----------------------------------------------------------------------------
(* Executions of the script *)

Init ==
    /\ initialize_session_state
    /\ feedback_section = FALSE
    /\ trigger = "start"
    /\ input = None
    /\ http = <<>>
    /\ alerts = <<>>

\* lines 257-298: the user submits a prompt
ChatInput ==
    \E prompt \in Prompts :
        /\ prompt # <<>>                      \* line 257
        /\ Len(conversation) < MaxTurns
        /\ trigger' = "chat_input"
        /\ input' = Some(prompt)
        /\ IF ~MeaningfulQuestion(prompt)
           THEN \* st.warning, st.stop(): nothing below line 260 runs or is drawn
                /\ alerts' = <<"warning: Please enter a meaningful question">>
                /\ http' = <<>>
                /\ feedback_section' = FALSE
                /\ UNCHANGED session
           ELSE \E outcome \in Outcomes, query_id \in QueryIds, answer \in Answers,
                docs \in RetrievedDocuments, reflection \in QueryReflections :
                LET data == [ query_id |-> query_id, answer |-> answer,
                              retrieved_documents |-> docs, reflection |-> reflection ]
                    response == send_query(outcome, data)
                IN  /\ http' = << QueryRequest(outcome, data) >>
                    /\ alerts' = IF outcome.raised THEN <<"error: Connection Error">>
                                 ELSE IF outcome.status_code = 200 THEN <<>>
                                 ELSE <<"error: API Error">>
                    /\ conversation' = ConversationAfterQuery(conversation, prompt, response)
                    /\ current_query_id' = SessionAfterQuery(response).current_query_id
                    /\ last_response' = SessionAfterQuery(response).last_response
                    /\ feedback_section' =
                           FeedbackSectionGuard(last_response', conversation', feedback_given)
                    /\ UNCHANGED <<feedback_given, model_settings>>

\* an execution in which no handler runs: the page is drawn from the session state
Render(widget) ==
    /\ trigger' = widget
    /\ input' = None
    /\ http' = <<>>
    /\ alerts' = <<>>
    /\ feedback_section' = FeedbackSectionGuard(last_response, conversation, feedback_given)
    /\ UNCHANGED session

\* lines 185-201: the user moves a slider or ticks the checkbox of the sidebar
ModelConfiguration ==
    \E setting \in DOMAIN SettingValues :
        \E value \in SettingValues[setting] :
            /\ model_settings' = [model_settings EXCEPT ![setting] = value]
            /\ trigger' = "model_configuration"
            /\ input' = None
            /\ http' = <<>>
            /\ alerts' = <<>>
            /\ feedback_section' =
                   FeedbackSectionGuard(last_response, conversation, feedback_given)
            /\ UNCHANGED <<conversation, current_query_id, feedback_given, last_response>>

\* lines 203-211: the user picks a legal domain or a language; the choice stays in
\* the widget and goes into the payload of the next query
DocumentSelection == Render("document_selection")

\* variant: the button clears the feedback records too
ClearedSession_All ==
    [ conversation |-> <<>>,
      current_query_id |-> None,
      last_response |-> None,
      feedback_given |-> EmptyDict,
      model_settings |-> model_settings ]

\* lines 214-216: the assignments of the Clear Conversation button
ClearedSession ==
    [ conversation |-> <<>>,
      current_query_id |-> None,
      last_response |-> None,
      feedback_given |-> feedback_given,
      model_settings |-> model_settings ]

\* lines 213-217: Clear Conversation, then st.rerun()
ClearConversation ==
    /\ trigger' = "clear"
    /\ input' = None
    /\ http' = <<>>
    /\ alerts' = <<>>
    /\ conversation' = ClearedSession.conversation
    /\ current_query_id' = ClearedSession.current_query_id
    /\ last_response' = ClearedSession.last_response
    /\ feedback_given' = ClearedSession.feedback_given
    /\ model_settings' = ClearedSession.model_settings
    /\ feedback_section' =
           FeedbackSectionGuard(last_response', conversation', feedback_given')

\* a widget of the feedback section can be used: it is on the page, and the
\* execution its click starts reaches it again (line 301)
FeedbackSectionActive ==
    feedback_section /\ FeedbackSectionGuard(last_response, conversation, feedback_given)

\* lines 311-317: the Positive and Negative buttons
FeedbackButton(feedback_type) ==
    /\ FeedbackSectionActive
    /\ \E outcome \in Outcomes :
        /\ trigger' = feedback_type
        /\ input' = None
        /\ http' = FeedbackRequests(outcome)
        /\ alerts' = FeedbackAlerts(outcome)
        /\ feedback_given' = FeedbackGivenAfter(feedback_given, feedback_type, outcome)
        /\ feedback_section' = TRUE
        /\ UNCHANGED <<conversation, current_query_id, model_settings, last_response>>

\* lines 319-324: the Reflect button
ReflectButton ==
    /\ FeedbackSectionActive
    /\ \E outcome \in Outcomes, text \in Reflections :
        LET reflection == get_reflection(outcome, [reflection |-> text])
        IN  /\ trigger' = "reflect"
            /\ input' = None
            /\ http' = ReflectionRequests(outcome, [reflection |-> text])
            /\ alerts' = ReflectionAlerts(outcome)
            /\ IF reflection # None
               THEN \* line 323, then st.rerun()
                    /\ conversation' =
                           SetLastReflection(conversation, reflection[1].reflection)
                    /\ feedback_section' =
                           FeedbackSectionGuard(last_response, conversation', feedback_given)
               ELSE /\ UNCHANGED conversation
                    /\ feedback_section' = TRUE
            /\ UNCHANGED <<current_query_id, feedback_given, model_settings, last_response>>

\* lines 327-344: the correction form
SubmitCorrection ==
    /\ FeedbackSectionActive
    /\ \E correction \in Corrections :
        /\ trigger' = "correction_form"
        /\ input' = Some(correction)
        /\ IF CorrectionProvided(correction)
           THEN \E outcome \in Outcomes :
                /\ http' = FeedbackRequests(outcome)
                /\ alerts' = FeedbackAlerts(outcome)
                /\ feedback_given' = FeedbackGivenAfter(feedback_given, CORRECTION, outcome)
                /\ IF submit_feedback(outcome)
                   THEN \* line 341, then st.rerun()
                        /\ conversation' = SetLastContent(conversation, correction)
                        /\ feedback_section' =
                               FeedbackSectionGuard(last_response, conversation',
                                                    feedback_given')
                   ELSE /\ UNCHANGED conversation
                        /\ feedback_section' = TRUE
           ELSE /\ http' = <<>>
                /\ alerts' = <<"warning: Please provide a corrected answer">>
                /\ feedback_section' = TRUE
                /\ UNCHANGED <<conversation, feedback_given>>
        /\ UNCHANGED <<current_query_id, model_settings, last_response>>

\* a click on a widget of a feedback section that the execution it starts does not
\* draw any more (line 301 is false): no handler runs
StaleClick ==
    /\ feedback_section
    /\ ~FeedbackSectionGuard(last_response, conversation, feedback_given)
    /\ Render("stale")

Next ==
    \/ ChatInput
    \/ ModelConfiguration
    \/ DocumentSelection
    \/ ClearConversation
    \/ FeedbackButton(POSITIVE)
    \/ FeedbackButton(NEGATIVE)
    \/ ReflectButton
    \/ SubmitCorrection
    \/ StaleClick

Spec == Init /\ [][Next]_vars

----------------------------------------------------------------------------
(* Properties *)

\* the request was answered with this status code
Answered(request, code) == ~request.outcome.raised /\ request.outcome.status_code = code

\* the latest execution posted one request to this path
Posted(path) == Len(http) = 1 /\ http[1].path = path

FeedbackWidgets == {POSITIVE, NEGATIVE, "correction_form"}

\* the latest execution ran submitQuery on an accepted text
QuerySubmitted == trigger = "chat_input" /\ Len(strip(input[1])) >= 3

QueryOk == QuerySubmitted /\ Posted("/query") /\ Answered(http[1], 200)
QueryFailed == QuerySubmitted /\ ~(Posted("/query") /\ Answered(http[1], 200))

\* the latest execution ran submitFeedback and it failed
FeedbackFailed ==
    trigger \in FeedbackWidgets /\ ~(Posted("/feedback") /\ Answered(http[1], 201))

\* the latest execution ran requestReflection
ReflectionOk == trigger = "reflect" /\ Posted("/reflect") /\ Answered(http[1], 200)
ReflectionFailed == trigger = "reflect" /\ ~ReflectionOk

\* the latest execution submitted a correction that the API accepted
CorrectionOk ==
    /\ trigger = "correction_form"
    /\ input[1] # <<>>
    /\ Posted("/feedback")
    /\ Answered(http[1], 201)

UserTurn(text) == [role |-> "user", content |-> text]

\* the index of the last assistant turn, 0 if there is none
LastAssistant(conv) ==
    LET S == {i \in 1..Len(conv) : conv[i].role = "assistant"}
    IN  IF S = {} THEN 0 ELSE CHOOSE i \in S : \A j \in S : j <= i

\* C1: an accepted query (trimmed length >= 3) posts one query; answered with 200
\* it grows the conversation by the user turn and then an assistant turn, and
\* otherwise (non-200 or transport error) by the user turn alone, which is kept.
C1_QueryGrowth ==
    [][ QuerySubmitted' =>
          /\ Posted("/query")'
          /\ Len(conversation') =
                 Len(conversation) + (IF Answered(http'[1], 200) THEN 2 ELSE 1)
          /\ SubSeq(conversation', 1, Len(conversation)) = conversation
          /\ conversation'[Len(conversation) + 1] = UserTurn(input'[1])
          /\ Answered(http'[1], 200) =>
                 conversation'[Len(conversation) + 2].role = "assistant" ]_vars

\* C1 witness: a query failed after an answered one, and its user turn is the last turn
C1_Witness ==
    /\ QueryFailed
    /\ Len(conversation) = 3
    /\ conversation[2].role = "assistant"
    /\ conversation[3] = UserTurn(input[1])

\* C2: once feedback_given holds a query id, no execution posts /feedback for that
\* id again, and its entry is neither changed nor removed; so at most one feedback
\* request per id succeeds.
C2_OneFeedbackPerQuery ==
    [][ /\ \A id \in DOMAIN feedback_given :
              /\ id \in DOMAIN feedback_given'
              /\ feedback_given'[id] = feedback_given[id]
              /\ \A i \in 1..Len(http') :
                     ~(http'[i].path = "/feedback" /\ http'[i].query_id = Some(id))
        /\ \A i \in 1..Len(http') :
              (http'[i].path = "/feedback" /\ Answered(http'[i], 201)) =>
                  /\ http'[i].query_id[1] \notin DOMAIN feedback_given
                  /\ http'[i].query_id[1] \in DOMAIN feedback_given' ]_vars

\* C2 witness: feedback was recorded for the current query, the user clicked a feedback
\* widget again, and nothing was posted
C2_Witness ==
    /\ trigger = "stale"
    /\ last_response # None
    /\ last_response[1].query_id \in DOMAIN feedback_given
    /\ Cardinality(DOMAIN feedback_given) = 2
    /\ http = <<>>

\* C3: an accepted correction with a non-empty text records "correction" for the
\* query id of last_response and replaces the content of the last assistant turn by
\* the text; the turn's reflection and sources and the number of turns stay.
C3_Correction ==
    [][ CorrectionOk' =>
          LET n == Len(conversation) IN
          /\ last_response # None
          /\ feedback_given' = Put(feedback_given, last_response[1].query_id, CORRECTION)
          /\ n > 0
          /\ n = LastAssistant(conversation)
          /\ Len(conversation') = n
          /\ conversation'[n].role = "assistant"
          /\ conversation'[n].content = input'[1]
          /\ conversation'[n].reflection = conversation[n].reflection
          /\ conversation'[n].sources = conversation[n].sources
          /\ SubSeq(conversation', 1, n - 1) = SubSeq(conversation, 1, n - 1) ]_vars

\* C3 witness: a corrected answer that still carries its reflection
C3_Witness ==
    /\ CorrectionOk
    /\ conversation[Len(conversation)].content = input[1]
    /\ conversation[Len(conversation)].reflection # None
    /\ feedback_given[last_response[1].query_id] = CORRECTION

\* C4: Clear Conversation empties conversation, unsets current_query_id and
\* last_response, and leaves feedback_given and model_settings as they were.
C4_Clear ==
    [][ trigger' = "clear" =>
          /\ conversation' = <<>>
          /\ current_query_id' = None
          /\ last_response' = None
          /\ feedback_given' = feedback_given
          /\ model_settings' = model_settings ]_vars

\* C4 witness: cleared, with feedback recorded before and a setting changed before
C4_Witness ==
    /\ trigger = "clear"
    /\ conversation = <<>>
    /\ last_response = None
    /\ DOMAIN feedback_given # {}
    /\ ~model_settings.enable_reflection

\* C5: requestReflection never changes the number of turns; when it succeeds the
\* session state changes in the reflection of the last assistant turn and nowhere
\* else.
C5_Reflection ==
    [][ trigger' = "reflect" =>
          LET n == Len(conversation) IN
          /\ Len(conversation') = n
          /\ ReflectionOk' =>
                /\ n > 0
                /\ n = LastAssistant(conversation)
                /\ conversation' =
                       [conversation EXCEPT ![n].reflection = conversation'[n].reflection]
                /\ conversation'[n].reflection = Some(http'[1].body[1].reflection)
                /\ UNCHANGED <<current_query_id, last_response, feedback_given,
                               model_settings>> ]_vars

\* C5 witness: the reflection fetched on demand is on the last assistant turn
C5_Witness ==
    /\ ReflectionOk
    /\ Len(conversation) = 4
    /\ conversation[4].reflection = Some(http[1].body[1].reflection)
    /\ last_response[1].reflection # conversation[4].reflection

\* C6: a query text whose trimmed length is below 3 is refused with a warning;
\* nothing is posted and conversation, current_query_id and last_response stay.
C6_ShortQuery ==
    [][ (trigger' = "chat_input" /\ Len(strip(input'[1])) < 3) =>
          /\ alerts' = <<"warning: Please enter a meaningful question">>
          /\ http' = <<>>
          /\ UNCHANGED <<conversation, current_query_id, last_response>> ]_vars

\* C6 witness: a text of 4 characters with fewer than 3 after trimming was refused
\* while a conversation was under way
C6_Witness ==
    /\ trigger = "chat_input"
    /\ Len(input[1]) > 3
    /\ Len(strip(input[1])) \in 1..2
    /\ conversation # <<>>
    /\ http = <<>>

\* C7: a correction with an empty text is refused with a warning; /feedback is not
\* posted and feedback_given and conversation stay.
C7_EmptyCorrection ==
    [][ (trigger' = "correction_form" /\ input'[1] = <<>>) =>
          /\ alerts' = <<"warning: Please provide a corrected answer">>
          /\ http' = <<>>
          /\ UNCHANGED <<feedback_given, conversation>> ]_vars

\* C7 witness: the empty correction form was submitted
C7_Witness ==
    /\ trigger = "correction_form"
    /\ input = Some(<<>>)
    /\ http = <<>>
    /\ conversation # <<>>

\* C8: a failed submitFeedback or requestReflection changes nothing of the session
\* state; a failed submitQuery changes only the conversation, by the user turn; and
\* feedback_given changes only when POST /feedback was answered with 201.
C8_FailuresKeepState ==
    [][ /\ (FeedbackFailed' \/ ReflectionFailed') => UNCHANGED session
        /\ QueryFailed' =>
              /\ conversation' = Append(conversation, UserTurn(input'[1]))
              /\ UNCHANGED <<current_query_id, last_response, feedback_given,
                             model_settings>>
        /\ feedback_given' # feedback_given =>
              Posted("/feedback")' /\ Answered(http'[1], 201) ]_vars

\* C8 witness: POST /feedback was answered with 200, which is not its success status
C8_Witness ==
    /\ trigger = NEGATIVE
    /\ Posted("/feedback")
    /\ Answered(http[1], 200)
    /\ last_response[1].query_id \notin DOMAIN feedback_given

\* C9: no execution changes a turn that stays in the conversation, except the last
\* assistant turn; in particular no user turn is changed, also after a failed query
\* that leaves a user turn last while last_response holds an earlier response.
C9_TurnsImmutable ==
    [][ \A i \in 1..Len(conversation) :
            i <= Len(conversation') =>
                \/ conversation'[i] = conversation[i]
                \/ /\ i = LastAssistant(conversation)
                   /\ conversation'[i].role = "assistant" ]_vars

\* C9 witness: a query failed after an answer given a reflection; the user turn is last,
\* last_response holds the earlier response and the feedback section is not drawn
C9_Witness ==
    /\ QueryFailed
    /\ last_response # None
    /\ last_response[1].query_id \notin DOMAIN feedback_given
    /\ Len(conversation) = 3
    /\ conversation[3].role = "user"
    /\ conversation[2].reflection = Some("r1")
    /\ ~feedback_section

\* current_query_id and last_response are both unset, or name the same query
Consistent ==
    \/ current_query_id = None /\ last_response = None
    \/ last_response # None /\ current_query_id = Some(last_response[1].query_id)

\* C10: current_query_id and last_response stay consistent: a query answered with
\* 200 sets last_response to the body and current_query_id to its query_id, Clear
\* unsets both, and every other execution leaves both as they were.
C10_QueryIdMatchesResponse ==
    [][ /\ Consistent'
        /\ IF QueryOk' THEN last_response' = http'[1].body
           ELSE IF trigger' = "clear" THEN last_response' = None
           ELSE UNCHANGED <<current_query_id, last_response>> ]_vars

\* C10 witness: after a failed query both still name the earlier answered query
C10_Witness ==
    /\ QueryFailed
    /\ last_response # None
    /\ current_query_id = Some("q2")
    /\ last_response[1].query_id = "q2"

====
